---- MODULE Spec2Model ----
(***************************************************************************)
(* Model of langram: a context-free grammar value (src/src/lib.rs), the    *)
(* Earley recognizer (src/src/earley/mod.rs) and the LR(1) recognizer      *)
(* (src/src/lr/mod.rs).                                                    *)
(*                                                                         *)
(* A symbol is a Rust `char`, modelled by its code point (a natural        *)
(* number), so that the derived orderings of BTreeSet and the UTF-8 byte   *)
(* lengths that String::len returns are those of the program.  A String    *)
(* is the sequence of its chars.                                           *)
(***************************************************************************)
EXTENDS Integers, Sequences, FiniteSets, TLC

\* ----------------------------------------------------------------- bounds
\* iterations of the LR(1) driver loop the model follows in one predict call
DriverFuel == 40

\* the longest of the words over Alphabet handed to predict
MaxWordLen == 1

\* the calls (fit and predict) of one run
MaxCalls == 4

\* ------------------------------------------------------------------ chars
START_RULE == 1
END_TERMINAL == 2
EPS_TERMINAL == 3
\* char::default(), what unwrap_or_default() yields past the end of a String
NUL == 0

ch_S == 83
ch_T == 84
ch_F == 70
ch_N == 78
ch_C == 67
ch_Z == 90
ch_a == 97
ch_c == 99
ch_d == 100
ch_plus == 43
ch_star == 42
ch_lpar == 40
ch_rpar == 41
\* a char whose UTF-8 encoding takes two bytes (U+00E9)
ch_e_acute == 233

\* char::len_utf8
len_utf8(c) == IF c < 128 THEN 1 ELSE IF c < 2048 THEN 2 ELSE IF c < 65536 THEN 3 ELSE 4

\* String::len: the length in BYTES
RECURSIVE str_len(_)
str_len(s) == IF s = <<>> THEN 0 ELSE len_utf8(Head(s)) + str_len(Tail(s))

\* str::char_indices: the (byte offset, char) pairs of a String
RECURSIVE char_indices_from(_, _)
char_indices_from(s, off) ==
    IF s = <<>> THEN <<>>
    ELSE <<[i |-> off, letter |-> Head(s)]>> \o char_indices_from(Tail(s), off + len_utf8(Head(s)))

char_indices(s) == char_indices_from(s, 0)

\* s.chars().nth(pos).unwrap_or_default()
chars_nth(s, pos) == IF pos < Len(s) THEN s[pos + 1] ELSE NUL

Range(f) == {f[i] : i \in DOMAIN f}

\* ---------------------------------------------------------------- grammar
\* MultiMap::insert: append the value to the key's Vec
MultiMap_insert(rules, key, value) ==
    IF key \in DOMAIN rules
    THEN [rules EXCEPT ![key] = Append(@, value)]
    ELSE [k \in DOMAIN rules \cup {key} |-> IF k = key THEN <<value>> ELSE rules[k]]

\* HashSet::insert on a set kept with its iteration order: grammar.non_terminals is
\* the one HashSet the program iterates (LR1Parser::fit), so it is modelled as the
\* duplicate-free sequence of its elements in the order `iter()` yields them; the
\* order is a property of the HashSet instance and is an input of the model.
HashSet_insert(seq, value) == IF value \in Range(seq) THEN seq ELSE Append(seq, value)

\* a new that leaves START_RULE out of the non-terminals
CFGrammar_new_without_start(terminals, non_terminals, rules, start) ==
    [terminals     |-> terminals \cup {END_TERMINAL, EPS_TERMINAL},
     non_terminals |-> non_terminals,
     rules         |-> MultiMap_insert(rules, START_RULE, <<start>>),
     start         |-> START_RULE]

\* CFGrammar::new
CFGrammar_new(terminals, non_terminals, rules, start) ==
    [terminals     |-> terminals \cup {END_TERMINAL, EPS_TERMINAL},
     non_terminals |-> HashSet_insert(non_terminals, START_RULE),
     rules         |-> MultiMap_insert(rules, START_RULE, <<start>>),
     start         |-> START_RULE]

is_terminal(grammar, symbol) == symbol \in grammar.terminals

is_non_terminal(grammar, symbol) == symbol \in Range(grammar.non_terminals)

\* MultiMap::get_vec(key): Some(vec) iff the key is present
has_rules(grammar, key) == key \in DOMAIN grammar.rules

\* MultiMap::iter: every (key, value) pair
rules_iter(grammar) ==
    UNION {{<<k, r>> : r \in Range(grammar.rules[k])} : k \in DOMAIN grammar.rules}

\* CFGrammar::get_start_rule (the grammars built by CFGrammar_new from rules that
\* do not mention START_RULE have exactly one start rule)
get_start_rule(grammar) == <<grammar.start, grammar.rules[grammar.start][1]>>

\* ----------------------------------------------------------------- Earley
EarleySituation_new(rule, pos, prev_cnt) == [rule |-> rule, pos |-> pos, prev_cnt |-> prev_cnt]

\* EarleySituation::nth
EarleySituation_nth(situation, pos) == chars_nth(situation.rule[2], pos)

\* EarleyParser::new
EarleyParser_new == [grammar |-> <<>>, situations |-> <<>>]

\* Option<CFGrammar>: None is <<>>, Some(g) is <<g>>
grammar_is_none(self) == self.grammar = <<>>

\* EarleyParser::check_grammar
check_grammar(grammar) ==
    \A rule \in rules_iter(grammar) : rule[1] \in Range(grammar.non_terminals)

\* a fit that stores the grammar before it looks at the result of check_grammar
EarleyParser_fit_stores_first(self, grammar) ==
    [self |-> [self EXCEPT !.grammar = <<grammar>>],
     ret  |-> IF check_grammar(grammar) THEN "Ok" ELSE "NotContextFree"]

\* EarleyParser::fit
EarleyParser_fit(self, grammar) ==
    IF ~check_grammar(grammar)
    THEN [self |-> self, ret |-> "NotContextFree"]
    ELSE [self |-> [self EXCEPT !.grammar = <<grammar>>], ret |-> "Ok"]

\* The chart position k is situations[k + 1] (sequences start at 1).
\* EarleyParser::predict(curr_cnt), the chart step
Earley_predict_step(grammar, situations, curr_cnt) ==
    LET new_situations ==
            UNION {IF situation.pos >= str_len(situation.rule[2])
                   THEN {}
                   ELSE LET rule_left == EarleySituation_nth(situation, situation.pos)
                        IN  IF has_rules(grammar, rule_left)
                            THEN {EarleySituation_new(<<rule_left, rule_right>>, 0, curr_cnt) :
                                    rule_right \in Range(grammar.rules[rule_left])}
                            ELSE {}
                   : situation \in situations[curr_cnt + 1]}
    IN  [situations EXCEPT ![curr_cnt + 1] = @ \cup new_situations]

\* EarleyParser::scan
Earley_scan(situations, letter, curr_cnt) ==
    LET new_situations ==
            {EarleySituation_new(situation.rule, situation.pos + 1, situation.prev_cnt) :
                situation \in {s \in situations[curr_cnt + 1] :
                                  /\ s.pos < str_len(s.rule[2])
                                  /\ EarleySituation_nth(s, s.pos) = letter}}
    IN  [situations EXCEPT ![curr_cnt + 2] = @ \cup new_situations]

\* EarleyParser::complete
Earley_complete(situations, curr_cnt) ==
    LET new_situations ==
            UNION {IF curr_situation.pos # str_len(curr_situation.rule[2])
                   THEN {}
                   ELSE {EarleySituation_new(prev_situation.rule, prev_situation.pos + 1,
                                             prev_situation.prev_cnt) :
                           prev_situation \in
                             {p \in situations[curr_situation.prev_cnt + 1] :
                                 EarleySituation_nth(p, p.pos) = curr_situation.rule[1]}}
                   : curr_situation \in situations[curr_cnt + 1]}
    IN  [situations EXCEPT ![curr_cnt + 1] = @ \cup new_situations]

\* EarleyParser::do_layer
RECURSIVE do_layer(_, _, _)
do_layer(grammar, situations, layer) ==
    LET prev_size == Cardinality(situations[layer + 1])
        next == Earley_complete(Earley_predict_step(grammar, situations, layer), layer)
    IN  IF Cardinality(next[layer + 1]) = prev_size
        THEN next
        ELSE do_layer(grammar, next, layer)

\* the for loop of Parser::predict over word.char_indices()
RECURSIVE Earley_letters(_, _, _)
Earley_letters(grammar, situations, indices) ==
    IF indices = <<>> THEN situations
    ELSE LET i == Head(indices).i
             letter == Head(indices).letter
         IN  Earley_letters(grammar,
                            do_layer(grammar, Earley_scan(situations, letter, i), i + 1),
                            Tail(indices))

\* a predict without `self.situations.clear()`: resize keeps the sets of the call before
EarleyParser_predict_no_clear(self, word) ==
    IF grammar_is_none(self)
    THEN [self |-> self, ret |-> FALSE]
    ELSE LET grammar == self.grammar[1]
             start_rule == get_start_rule(grammar)
             seeded == [k \in 1..(str_len(word) + 1) |->
                          (IF k <= Len(self.situations) THEN self.situations[k] ELSE {})
                          \cup (IF k = 1 THEN {EarleySituation_new(start_rule, 0, 0)} ELSE {})]
             chart == Earley_letters(grammar, do_layer(grammar, seeded, 0), char_indices(word))
         IN  [self |-> [self EXCEPT !.situations = chart],
              ret  |-> EarleySituation_new(start_rule, str_len(start_rule[2]), 0)
                          \in chart[str_len(word) + 1]]

\* <EarleyParser as Parser>::predict
EarleyParser_predict(self, word) ==
    IF grammar_is_none(self)
    THEN [self |-> self, ret |-> FALSE]
    ELSE LET grammar == self.grammar[1]
             start_rule == get_start_rule(grammar)
             seeded == [k \in 1..(str_len(word) + 1) |->
                          IF k = 1 THEN {EarleySituation_new(start_rule, 0, 0)} ELSE {}]
             chart == Earley_letters(grammar, do_layer(grammar, seeded, 0), char_indices(word))
         IN  [self |-> [self EXCEPT !.situations = chart],
              ret  |-> EarleySituation_new(start_rule, str_len(start_rule[2]), 0)
                          \in chart[str_len(word) + 1]]

\* ------------------------------------------------------------------ LR(1)
LR1Situation_new(rule, pos, lookahead) == [rule |-> rule, pos |-> pos, lookahead |-> lookahead]

\* LR1Situation::nth
LR1Situation_nth(situation, pos) == chars_nth(situation.rule[2], pos)

\* enum LR1Action
NoAction == [kind |-> "NoAction", n |-> 0, symbol |-> NUL]

Shift(state) == [kind |-> "Shift", n |-> state, symbol |-> NUL]

Reduce(count, symbol) == [kind |-> "Reduce", n |-> count, symbol |-> symbol]

Accept == [kind |-> "Accept", n |-> 0, symbol |-> NUL]

\* Ord for String: lexicographic on the bytes, which for UTF-8 is the order of
\* the code points
RECURSIVE str_cmp_lt(_, _)
str_cmp_lt(a, b) ==
    IF b = <<>> THEN FALSE
    ELSE IF a = <<>> THEN TRUE
    ELSE IF Head(a) # Head(b) THEN Head(a) < Head(b)
    ELSE str_cmp_lt(Tail(a), Tail(b))

\* #[derive(PartialOrd, Ord)] of LR1Situation: rule (char, String), pos, lookahead
situation_lt(x, y) ==
    IF x.rule[1] # y.rule[1] THEN x.rule[1] < y.rule[1]
    ELSE IF x.rule[2] # y.rule[2] THEN str_cmp_lt(x.rule[2], y.rule[2])
    ELSE IF x.pos # y.pos THEN x.pos < y.pos
    ELSE x.lookahead < y.lookahead

\* BTreeSet<LR1Situation>::iter: the situations in ascending order
RECURSIVE situations_iter(_)
situations_iter(state) ==
    IF state = {} THEN <<>>
    ELSE LET first == CHOOSE m \in state : \A x \in state : x = m \/ situation_lt(m, x)
         IN  <<first>> \o situations_iter(state \ {first})

\* Ord for BTreeSet<LR1Situation>: lexicographic on the ascending iterations.  With
\* m the least situation that only one of the two sets holds, the iterations agree
\* before m; the set that holds m is the lesser unless the other one ends there.
state_lt(a, b) ==
    /\ a # b
    /\ LET diff == (a \ b) \cup (b \ a)
           m == CHOOSE m \in diff : \A x \in diff : x = m \/ situation_lt(m, x)
       IN  IF m \in a
           THEN \E y \in b : situation_lt(m, y)
           ELSE \A x \in a : situation_lt(x, m)

\* LR1Parser::dfs: the pair of the visited set it leaves and the set it returns.
\* dfs_rules is the inner `for rule_right in rules.iter()` from the i-th rule on.
RECURSIVE dfs(_, _, _)
RECURSIVE dfs_rules(_, _, _, _, _)
dfs_rules(grammar, visited, rule_left, i, found) ==
    IF i > Len(grammar.rules[rule_left])
    THEN [visited |-> visited, found |-> found]
    ELSE LET rule_right == grammar.rules[rule_left][i]
         IN  IF <<rule_left, rule_right>> \in visited
             THEN dfs_rules(grammar, visited, rule_left, i + 1, found)
             ELSE LET sub == dfs(grammar, visited \cup {<<rule_left, rule_right>>}, rule_right)
                  IN  dfs_rules(grammar, sub.visited, rule_left, i + 1, found \cup sub.found)

dfs(grammar, visited, lookup) ==
    IF lookup = <<>>
    THEN [visited |-> visited, found |-> {}]
    ELSE LET symbol == Head(lookup)
         IN  IF symbol \in grammar.terminals
             THEN [visited |-> visited, found |-> {symbol}]
             ELSE LET r == IF has_rules(grammar, symbol)
                           THEN dfs_rules(grammar, visited, symbol, 1, {})
                           ELSE [visited |-> visited, found |-> {}]
                  IN  IF r.found # {}
                      THEN r
                      ELSE dfs(grammar, r.visited, Tail(lookup))

\* LR1Parser::get_first
get_first(grammar, lookup) == dfs(grammar, {}, lookup).found

\* the situations one situation adds in LR1Parser::closure
closure_of_situation(grammar, situation) ==
    IF situation.pos >= str_len(situation.rule[2])
    THEN {}
    ELSE LET rule_left == LR1Situation_nth(situation, situation.pos)
         IN  IF has_rules(grammar, rule_left)
             THEN LET lookup == SubSeq(situation.rule[2], situation.pos + 2,
                                       Len(situation.rule[2])) \o <<situation.lookahead>>
                      first == get_first(grammar, lookup)
                  IN  {LR1Situation_new(<<rule_left, rule_right>>, 0, symbol) :
                          rule_right \in Range(grammar.rules[rule_left]), symbol \in first}
             ELSE {}

\* the loop of LR1Parser::closure
RECURSIVE closure_loop(_, _, _)
closure_loop(grammar, new_state, prev_diff) ==
    LET curr_diff == UNION {closure_of_situation(grammar, situation) :
                                situation \in prev_diff} \ new_state
    IN  IF Cardinality(curr_diff) = 0
        THEN new_state
        ELSE closure_loop(grammar, new_state \cup curr_diff, curr_diff)

\* LR1Parser::closure
closure(grammar, state) == closure_loop(grammar, state, state)

\* LR1Parser::goto
goto(grammar, state, symbol) ==
    closure(grammar,
            {LR1Situation_new(situation.rule, situation.pos + 1, situation.lookahead) :
                situation \in {s \in state : /\ s.pos < str_len(s.rule[2])
                                             /\ LR1Situation_nth(s, s.pos) = symbol}})

\* the loop of LR1Parser::get_states
RECURSIVE get_states_loop(_, _, _)
get_states_loop(grammar, states, prev_diff) ==
    LET all_symbols == grammar.terminals \cup Range(grammar.non_terminals)
        curr_diff == {goto(grammar, state, symbol) :
                         state \in prev_diff, symbol \in all_symbols} \ (states \cup {{}})
    IN  IF Cardinality(curr_diff) = 0
        THEN states
        ELSE get_states_loop(grammar, states \cup curr_diff, curr_diff)

\* LR1Parser::get_states
get_states(grammar) ==
    LET initial == closure(grammar,
                           {LR1Situation_new(get_start_rule(grammar), 0, END_TERMINAL)})
    IN  get_states_loop(grammar, {initial}, {initial})

\* --------------------------------------------------------------- grammars
\* the MultiMap built by inserting the (key, value) pairs of a sequence in order
RECURSIVE MultiMap_from(_)
MultiMap_from(pairs) ==
    IF pairs = <<>> THEN <<>>
    ELSE MultiMap_insert(MultiMap_from(SubSeq(pairs, 1, Len(pairs) - 1)),
                         pairs[Len(pairs)][1], pairs[Len(pairs)][2])

\* get_test_grammar of the Earley tests (seed grammar G1)
G1 ==
    CFGrammar_new({ch_a, ch_plus, ch_star, ch_lpar, ch_rpar}, <<ch_S, ch_T, ch_F, ch_N>>,
                  MultiMap_from(<< <<ch_S, <<ch_N>>>>,
                                   <<ch_N, <<ch_T, ch_plus, ch_N>>>>,
                                   <<ch_N, <<ch_T>>>>,
                                   <<ch_T, <<ch_F, ch_star, ch_T>>>>,
                                   <<ch_T, <<ch_F>>>>,
                                   <<ch_F, <<ch_lpar, ch_N, ch_rpar>>>>,
                                   <<ch_F, <<ch_a>>>> >>),
                  ch_S)

\* get_test_grammar of the LR(1) tests (seed grammar G2)
G2 ==
    CFGrammar_new({ch_c, ch_d}, <<ch_S, ch_C>>,
                  MultiMap_from(<< <<ch_S, <<ch_C, ch_C>>>>,
                                   <<ch_C, <<ch_c, ch_C>>>>,
                                   <<ch_C, <<ch_d>>>> >>),
                  ch_S)

\* the grammar of lr1_should_fail_1 and of main (seed grammar G3): S -> Sa | a | empty
G3 ==
    CFGrammar_new({ch_a}, <<ch_S>>,
                  MultiMap_from(<< <<ch_S, <<ch_S, ch_a>>>>,
                                   <<ch_S, <<ch_a>>>>,
                                   <<ch_S, <<>>>> >>),
                  ch_S)

\* LR1Parser::new
LR1Parser_new == [transitions |-> <<>>, start |-> 0]

\* transitions.entry(state).or_default().entry(letter).or_default(): the table with
\* the cell present (NoAction when it was absent)
entry_or_default(transitions, state, letter) ==
    LET row == IF state \in DOMAIN transitions THEN transitions[state] ELSE <<>>
        cell == IF letter \in DOMAIN row THEN row[letter] ELSE NoAction
        new_row == [l \in DOMAIN row \cup {letter} |-> IF l = letter THEN cell ELSE row[l]]
    IN  [q \in DOMAIN transitions \cup {state} |-> IF q = state THEN new_row ELSE transitions[q]]

\* an add_transition that writes the action over whatever the cell holds
add_transition_overwrite(self, state, letter, action) ==
    LET present == entry_or_default(self.transitions, state, letter)
    IN  [self |-> [self EXCEPT !.transitions = [present EXCEPT ![state][letter] = action]],
         ret  |-> "Ok"]

\* an add_transition that fails on every cell that holds an action, the equal one too
add_transition_strict(self, state, letter, action) ==
    LET present == entry_or_default(self.transitions, state, letter)
        curr_entry == present[state][letter]
    IN  IF curr_entry = NoAction
        THEN [self |-> [self EXCEPT !.transitions = [present EXCEPT ![state][letter] = action]],
              ret  |-> "Ok"]
        ELSE [self |-> [self EXCEPT !.transitions = present], ret |-> "NotLR1"]

\* LR1Parser::add_transition
add_transition(self, state, letter, action) ==
    LET present == entry_or_default(self.transitions, state, letter)
        curr_entry == present[state][letter]
    IN  IF curr_entry = NoAction \/ curr_entry = action
        THEN [self |-> [self EXCEPT !.transitions = [present EXCEPT ![state][letter] = action]],
              ret  |-> "Ok"]
        ELSE [self |-> [self EXCEPT !.transitions = present], ret |-> "NotLR1"]

\* `mapping` of LR1Parser::fit: a state's index in the iteration of the BTreeSet
mapping(states, state) == Cardinality({other \in states : state_lt(other, state)})

\* BTreeSet<BTreeSet<LR1Situation>>::iter: the states in ascending order
states_iter(states) ==
    [i \in 1..Cardinality(states) |-> CHOOSE state \in states : mapping(states, state) = i - 1]

\* LR1Parser::fit makes a sequence of steps on the recognizer, each an
\* add_transition call ("add") or the assignment of self.start ("start"), and returns
\* at the first add_transition that fails.  Which steps it would make does not depend
\* on the recognizer, only on the grammar: fit_steps is that sequence, fit_run makes
\* the steps.
AddStep(state, letter, action) ==
    [op |-> "add", state |-> state, letter |-> letter, action |-> action]

StartStep(state) == [op |-> "start", state |-> state, letter |-> NUL, action |-> NoAction]

\* the body of `for situation in state.iter()` in LR1Parser::fit
steps_of_situation(grammar, states, state, situation) ==
    LET state_mapped == mapping(states, state)
    IN  IF situation.pos < str_len(situation.rule[2])
        THEN LET letter == LR1Situation_nth(situation, situation.pos)
             IN  (IF is_terminal(grammar, letter)
                  THEN <<AddStep(state_mapped, letter,
                                 Shift(mapping(states, goto(grammar, state, letter))))>>
                  ELSE <<>>)
                 \o (IF situation.rule[1] = START_RULE THEN <<StartStep(state_mapped)>> ELSE <<>>)
        ELSE IF situation.rule[1] = START_RULE /\ situation.lookahead = END_TERMINAL
        THEN <<AddStep(state_mapped, situation.lookahead, Accept)>>
        ELSE <<AddStep(state_mapped, situation.lookahead,
                       Reduce(str_len(situation.rule[2]), situation.rule[1]))>>

\* the body of `for letter in grammar.non_terminals.iter()` in LR1Parser::fit
steps_of_non_terminal(grammar, states, state, letter) ==
    LET target == goto(grammar, state, letter)
    IN  IF target # {}
        THEN <<AddStep(mapping(states, state), letter, Shift(mapping(states, target)))>>
        ELSE <<>>

\* the concatenation of the sequences f[1], ..., f[Len(f)]
RECURSIVE Flatten(_)
Flatten(f) == IF f = <<>> THEN <<>> ELSE Head(f) \o Flatten(Tail(f))

\* the body of `for state in states.iter()` in LR1Parser::fit
steps_of_state(grammar, states, state) ==
    LET situations == situations_iter(state)
    IN  Flatten([i \in 1..Len(situations) |->
                    steps_of_situation(grammar, states, state, situations[i])])
        \o Flatten([i \in 1..Len(grammar.non_terminals) |->
                    steps_of_non_terminal(grammar, states, state, grammar.non_terminals[i])])

\* the steps of LR1Parser::fit, one sequence for each state in the order of
\* `for state in states.iter()`
fit_steps(grammar) ==
    LET states == get_states(grammar)
        ordered == states_iter(states)
    IN  [i \in 1..Len(ordered) |-> steps_of_state(grammar, states, ordered[i])]

\* the steps of one state, up to the first add_transition that fails
RECURSIVE fit_run_state(_, _)
fit_run_state(self, steps) ==
    IF steps = <<>>
    THEN [self |-> self, ret |-> "Ok"]
    ELSE LET step == Head(steps)
         IN  IF step.op = "start"
             THEN fit_run_state([self EXCEPT !.start = step.state], Tail(steps))
             ELSE LET added == add_transition(self, step.state, step.letter, step.action)
                  IN  IF added.ret # "Ok" THEN added ELSE fit_run_state(added.self, Tail(steps))

\* the steps of the states, up to the first add_transition that fails (the `?`)
RECURSIVE fit_run(_, _)
fit_run(self, steps) ==
    IF steps = <<>>
    THEN [self |-> self, ret |-> "Ok"]
    ELSE LET done == fit_run_state(self, Head(steps))
         IN  IF done.ret # "Ok" THEN done ELSE fit_run(done.self, Tail(steps))

\* VecDeque::from_iter(word.chars().rev())
RECURSIVE chars_rev(_)
chars_rev(word) == IF word = <<>> THEN <<>> ELSE Append(chars_rev(Tail(word)), Head(word))

\* the driver loop of <LR1Parser as Parser>::predict.  `queue` holds the state ids,
\* `stack` the symbols, the back of a VecDeque is the last element.  The outcome is
\* "return" (with ret), "panic" (queue.len() - count overflows, or the drain range
\* starts past the end), "diverge" (the iterations repeat: the loop never ends) or
\* "unfinished" (DriverFuel iterations did not end the loop).  With the outcome come
\* the two VecDeques as the loop left them and the number of iterations made.
\* The loop reads the state at the back of `queue` and the symbol at the back of
\* `stack`, and takes states off the back of `queue` only.  `seen` holds the earlier
\* configurations of the call in order.  When one of them had the stack and the state at
\* the back that the loop has now, and the queue was never shorter since, the iterations
\* made since then are made again, for ever; so they are when one of them is equal to the
\* configuration the loop has now.
Repeats(seen, queue, stack) ==
    \E i \in 1..Len(seen) :
        \/ seen[i] = <<queue, stack>>
        \/ /\ seen[i][2] = stack
           /\ seen[i][1][Len(seen[i][1])] = queue[Len(queue)]
           /\ \A j \in i..Len(seen) : Len(seen[j][1]) >= Len(seen[i][1])
           /\ Len(queue) >= Len(seen[i][1])

RECURSIVE predict_loop(_, _, _, _, _)
predict_loop(self, queue, stack, seen, fuel) ==
    LET end(now_self, outcome, ret) ==
            [self |-> now_self, outcome |-> outcome, ret |-> ret,
             queue |-> queue, stack |-> stack, steps |-> Len(seen)]
    IN  IF queue = <<>> \/ stack = <<>>
        THEN end(self, "return", FALSE)
        ELSE IF Repeats(seen, queue, stack)
        THEN end(self, "diverge", FALSE)
        ELSE IF fuel = 0
        THEN end(self, "unfinished", FALSE)
        ELSE LET present == entry_or_default(self.transitions, queue[Len(queue)],
                                             stack[Len(stack)])
                 action == present[queue[Len(queue)]][stack[Len(stack)]]
                 touched == [self EXCEPT !.transitions = present]
                 now == Append(seen, <<queue, stack>>)
             IN  CASE action.kind = "Shift" ->
                        predict_loop(touched, Append(queue, action.n),
                                     SubSeq(stack, 1, Len(stack) - 1), now, fuel - 1)
                   [] action.kind = "Reduce" ->
                        IF action.n > Len(queue)
                        THEN end(touched, "panic", FALSE)
                        ELSE predict_loop(touched, SubSeq(queue, 1, Len(queue) - action.n),
                                          Append(stack, action.symbol), now, fuel - 1)
                   [] action.kind = "Accept" ->
                        end(touched, "return", TRUE)
                   [] OTHER ->
                        end(touched, "return", FALSE)

\* VecDeque::from([self.start]): the state stack a predict call begins with
initial_queue(self) == <<self.start>>

\* a predict that keeps the state it stopped in as the start state
LR1Parser_predict_moving_start(self, word) ==
    LET r == predict_loop(self, initial_queue(self), <<END_TERMINAL>> \o chars_rev(word),
                          <<>>, DriverFuel)
    IN  IF r.queue = <<>> THEN r ELSE [r EXCEPT !.self.start = r.queue[Len(r.queue)]]

\* <LR1Parser as Parser>::predict
LR1Parser_predict(self, word) ==
    predict_loop(self, initial_queue(self), <<END_TERMINAL>> \o chars_rev(word), <<>>, DriverFuel)

\* a grammar with a terminal on the left of a production (CFGrammar::new does not
\* look at the rules it is given): S -> a, d -> a
G4 ==
    CFGrammar_new({ch_a, ch_d}, <<ch_S>>,
                  MultiMap_from(<< <<ch_S, <<ch_a>>>>,
                                   <<ch_d, <<ch_a>>>> >>),
                  ch_S)

\* S -> CZ, C -> c | cd, Z -> a | Zd
G5 ==
    CFGrammar_new({ch_a, ch_c, ch_d}, <<ch_S, ch_C, ch_Z>>,
                  MultiMap_from(<< <<ch_S, <<ch_C, ch_Z>>>>,
                                   <<ch_C, <<ch_c>>>>,
                                   <<ch_C, <<ch_c, ch_d>>>>,
                                   <<ch_Z, <<ch_a>>>>,
                                   <<ch_Z, <<ch_Z, ch_d>>>> >>),
                  ch_S)

\* a grammar with a terminal that is not ASCII: S -> a | e-acute
G6 ==
    CFGrammar_new({ch_a, ch_e_acute}, <<ch_S>>,
                  MultiMap_from(<< <<ch_S, <<ch_a>>>>,
                                   <<ch_S, <<ch_e_acute>>>> >>),
                  ch_S)

\* a left-recursive grammar with a right-hand side of three symbols: S -> Scc | c
G7 ==
    CFGrammar_new({ch_c}, <<ch_S>>,
                  MultiMap_from(<< <<ch_S, <<ch_S, ch_c, ch_c>>>>,
                                   <<ch_S, <<ch_c>>>> >>),
                  ch_S)

\* a grammar whose start symbol is not ASCII: e-acute -> a
G8 ==
    CFGrammar_new({ch_a}, <<ch_e_acute>>,
                  MultiMap_from(<< <<ch_e_acute, <<ch_a>>>> >>),
                  ch_e_acute)

\* a grammar with an empty right-hand side and no word: S -> CS, C -> empty
G9 ==
    CFGrammar_new({ch_c}, <<ch_S, ch_C>>,
                  MultiMap_from(<< <<ch_S, <<ch_C, ch_S>>>>,
                                   <<ch_C, <<>>>> >>),
                  ch_S)

\* a grammar whose one rule has the empty right-hand side: S -> empty
G10 ==
    CFGrammar_new({ch_a}, <<ch_S>>, MultiMap_from(<< <<ch_S, <<>>>> >>), ch_S)

\* the grammars handed to fit
Grammars == {G1, G2, G3, G4, G5, G6, G7, G8, G9, G10}

\* the steps of LR1Parser::fit for each of them
FitSteps == [grammar \in Grammars |-> fit_steps(grammar)]

\* <LR1Parser as Parser>::fit (the steps of the grammars above are tabulated)
LR1Parser_fit(self, grammar) ==
    fit_run(self, IF grammar \in Grammars THEN FitSteps[grammar] ELSE fit_steps(grammar))

\* ------------------------------------------------------------------ words
\* the words of the tests, a word with a non-terminal, a word of one char that
\* takes two bytes and a word with the char END_TERMINAL in it
SeedWords ==
    {<<ch_lpar, ch_a, ch_plus, ch_a, ch_rpar>>,
     <<ch_lpar, ch_a, ch_plus, ch_a, ch_star, ch_a, ch_lpar, ch_rpar, ch_rpar>>,
     <<ch_c, ch_d, ch_d>>,
     <<ch_d, ch_d, ch_d>>,
     <<ch_d, ch_C>>,
     <<ch_e_acute>>,
     <<ch_a, END_TERMINAL, ch_a>>}

\* the chars of the other words: terminals and a non-terminal
Alphabet == {ch_a, ch_c, ch_d, ch_S}

WordsUpTo(n) == UNION {[1..k -> Alphabet] : k \in 0..n}

\* the words handed to predict
Words == SeedWords \cup WordsUpTo(MaxWordLen)

\* ---------------------------------------------------------- state machine
\* One run follows one recognizer (recognizers share nothing).
\*   kind   which impl of the Parser trait the recognizer is ("earley", "lr")
\*   self   the recognizer: EarleyParser {grammar, situations} or
\*          LR1Parser {transitions, start}
\*   last   the last call of the Parser trait and what it returned
\*   log    what the calls so far were: the number of fit calls, of fit calls that
\*          returned Ok and of predict calls, and the last two fit calls, each with
\*          the recognizer it left and the number of predict calls before it
\*   seen   the predict calls since the last fit call, in order, with their answers
VARIABLES kind, self, last, log, seen

vars == <<kind, self, last, log, seen>>

NoCall == [op |-> "none", grammar |-> <<>>, word |-> <<>>, outcome |-> "none", ret |-> FALSE]

FitCall(grammar, ret) ==
    [op |-> "fit", grammar |-> <<grammar>>, word |-> <<>>, outcome |-> ret, ret |-> ret = "Ok"]

PredictCall(word, outcome, ret) ==
    [op |-> "predict", grammar |-> <<>>, word |-> word, outcome |-> outcome, ret |-> ret]

Init ==
    /\ kind \in {"earley", "lr"}
    /\ self = IF kind = "earley" THEN EarleyParser_new ELSE LR1Parser_new
    /\ last = NoCall
    /\ log = [fits |-> 0, oks |-> 0, predicts |-> 0, calls |-> <<>>]
    /\ seen = <<>>

\* the bookkeeping of a fit call that returned r
Fitted(grammar, r) ==
    /\ self' = r.self
    /\ last' = FitCall(grammar, r.ret)
    /\ log' = [fits     |-> log.fits + 1,
               oks      |-> log.oks + (IF r.ret = "Ok" THEN 1 ELSE 0),
               predicts |-> log.predicts,
               calls    |-> (IF log.calls = <<>> THEN <<>> ELSE <<log.calls[Len(log.calls)]>>)
                              \o <<[grammar |-> grammar, ret |-> r.ret, self |-> r.self,
                                    predicts |-> log.predicts]>>]
    /\ seen' = <<>>
    /\ UNCHANGED kind

\* the bookkeeping of a predict call
Predicted(word, new_self, outcome, ret) ==
    /\ self' = new_self
    /\ last' = PredictCall(word, outcome, ret)
    /\ log' = [log EXCEPT !.predicts = @ + 1]
    /\ seen' = Append(seen, [word |-> word, outcome |-> outcome, ret |-> ret])
    /\ UNCHANGED kind

\* a call that panicked ends the run
Running == last.outcome \notin {"panic", "diverge", "unfinished"}

EarleyFit(grammar) ==
    /\ kind = "earley" /\ Running /\ log.fits + log.predicts < MaxCalls
    /\ Fitted(grammar, EarleyParser_fit(self, grammar))

EarleyPredict(word) ==
    /\ kind = "earley" /\ Running /\ log.fits + log.predicts < MaxCalls
    /\ LET r == EarleyParser_predict(self, word)
       IN  Predicted(word, r.self, "return", r.ret)

LRFit(grammar) ==
    /\ kind = "lr" /\ Running /\ log.fits + log.predicts < MaxCalls
    /\ Fitted(grammar, LR1Parser_fit(self, grammar))

LRPredict(word) ==
    /\ kind = "lr" /\ Running /\ log.fits + log.predicts < MaxCalls
    /\ LET r == LR1Parser_predict(self, word)
       IN  Predicted(word, r.self, r.outcome, r.ret)

Next ==
    \/ \E grammar \in Grammars : EarleyFit(grammar)
    \/ \E word \in Words : EarleyPredict(word)
    \/ \E grammar \in Grammars : LRFit(grammar)
    \/ \E word \in Words : LRPredict(word)

Spec == Init /\ [][Next]_vars

\* ------------------------------------------------- what the claims refer to
\* The language of a grammar, by its definition and independently of either
\* recognizer.  A span <<X, i, j>> says that the non-terminal X derives the chars
\* i+1..j of the word w.  SpansOf: the spans that follow from those of `known` by
\* one production.
RECURSIVE StringDerives(_, _, _, _, _, _)
StringDerives(grammar, known, w, alpha, i, j) ==
    IF alpha = <<>> THEN i = j
    ELSE \E k \in i..j :
            /\ \/ k = i + 1 /\ Head(alpha) \in grammar.terminals /\ w[k] = Head(alpha)
               \/ <<Head(alpha), i, k>> \in known
            /\ StringDerives(grammar, known, w, Tail(alpha), k, j)

RECURSIVE Spans(_, _, _)
Spans(grammar, w, known) ==
    LET more == {span \in (Range(grammar.non_terminals) \cap DOMAIN grammar.rules)
                              \X (0..Len(w)) \X (0..Len(w)) :
                    /\ span[2] <= span[3]
                    /\ \E rhs \in Range(grammar.rules[span[1]]) :
                          StringDerives(grammar, known, w, rhs, span[2], span[3])}
    IN  IF more \subseteq known THEN known ELSE Spans(grammar, w, known \cup more)

\* w is in L(G): a word over the terminals that the start symbol derives
InLanguage(grammar, w) ==
    /\ \A i \in 1..Len(w) : w[i] \in grammar.terminals
    /\ <<grammar.start, 0, Len(w)>> \in Spans(grammar, w, {})

\* a grammar without empty right-hand sides
NoEmptyRhs(grammar) == \A rule \in rules_iter(grammar) : rule[2] # <<>>

\* a word over the grammar's terminals
OverTerminals(grammar, w) == \A i \in 1..Len(w) : w[i] \in grammar.terminals

\* what a fresh recognizer answers once fitted with the grammar
EarleyAnswer(grammar, w) ==
    EarleyParser_predict(EarleyParser_fit(EarleyParser_new, grammar).self, w).ret

\* The canonical LR(1) automaton of a grammar, by its textbook definition.
\* Nullable: the non-terminals that derive the empty string.
RECURSIVE Nullable(_, _)
Nullable(grammar, known) ==
    LET more == {A \in Range(grammar.non_terminals) \cap DOMAIN grammar.rules :
                    \E rhs \in Range(grammar.rules[A]) : \A i \in 1..Len(rhs) : rhs[i] \in known}
    IN  IF more \subseteq known THEN known ELSE Nullable(grammar, known \cup more)

\* the symbols a string derived from alpha can begin with, in one step
Leading(grammar, alpha) ==
    {alpha[i] : i \in {k \in 1..Len(alpha) :
                          \A j \in 1..(k - 1) : alpha[j] \in Nullable(grammar, {})}}

RECURSIVE LeadingClosure(_, _)
LeadingClosure(grammar, known) ==
    LET more == UNION {UNION {Leading(grammar, rhs) : rhs \in Range(grammar.rules[A])} :
                          A \in known \cap Range(grammar.non_terminals) \cap DOMAIN grammar.rules}
    IN  IF more \subseteq known THEN known ELSE LeadingClosure(grammar, known \cup more)

\* FIRST(alpha): the terminals that begin a string derivable from alpha
First(grammar, alpha) ==
    (LeadingClosure(grammar, Leading(grammar, alpha)) \cap grammar.terminals)
        \ Range(grammar.non_terminals)

ItemDone(item) == item.pos = Len(item.rule[2])

ItemNext(item) == item.rule[2][item.pos + 1]

RECURSIVE CanonicalClosure(_, _)
CanonicalClosure(grammar, items) ==
    LET more == UNION {IF ItemDone(item) \/ ItemNext(item) \notin
                                Range(grammar.non_terminals) \cap DOMAIN grammar.rules
                       THEN {}
                       ELSE {LR1Situation_new(<<ItemNext(item), rhs>>, 0, b) :
                               rhs \in Range(grammar.rules[ItemNext(item)]),
                               b \in First(grammar,
                                           SubSeq(item.rule[2], item.pos + 2, Len(item.rule[2]))
                                               \o <<item.lookahead>>)}
                       : item \in items}
    IN  IF more \subseteq items THEN items ELSE CanonicalClosure(grammar, items \cup more)

CanonicalGoto(grammar, items, symbol) ==
    CanonicalClosure(grammar,
                     {LR1Situation_new(item.rule, item.pos + 1, item.lookahead) :
                         item \in {it \in items : ~ItemDone(it) /\ ItemNext(it) = symbol}})

RECURSIVE CanonicalStates(_, _)
CanonicalStates(grammar, known) ==
    LET more == {CanonicalGoto(grammar, state, symbol) :
                    state \in known,
                    symbol \in grammar.terminals \cup Range(grammar.non_terminals)} \ {{}}
    IN  IF more \subseteq known THEN known ELSE CanonicalStates(grammar, known \cup more)

CanonicalAutomaton(grammar) ==
    CanonicalStates(grammar,
                    {CanonicalClosure(grammar,
                        {LR1Situation_new(get_start_rule(grammar), 0, END_TERMINAL)})})

\* no state of the canonical automaton has a shift/reduce or a reduce/reduce conflict
ConflictFree(grammar) ==
    \A state \in CanonicalAutomaton(grammar) : \A x, y \in state :
        ItemDone(x) =>
            /\ ~ItemDone(y) => ItemNext(y) # x.lookahead
            /\ ItemDone(y) /\ y.lookahead = x.lookahead => y.rule = x.rule

\* a grammar as the data model has it: every left-hand side a non-terminal, no
\* symbol both terminal and non-terminal
WellFormed(grammar) ==
    /\ \A rule \in rules_iter(grammar) : rule[1] \in Range(grammar.non_terminals)
    /\ grammar.terminals \cap Range(grammar.non_terminals) = {}

\* the fit call made last was the first call on the recognizer
FreshFit == last.op = "fit" /\ log.fits = 1 /\ log.predicts = 0

\* the one fit call on the recognizer so far returned Ok
FittedOnce == log.fits = 1 /\ log.oks = 1

\* the grammar of the last fit call
LastGrammar == log.calls[Len(log.calls)].grammar

\* L(G) on the words handed to predict, for each grammar handed to fit
Language == [grammar \in Grammars |-> {w \in Words : InLanguage(grammar, w)}]

\* the cells of an action table, and those that hold an action
Cells(transitions) ==
    UNION {{<<state, letter, transitions[state][letter]>> : letter \in DOMAIN transitions[state]} :
              state \in DOMAIN transitions}

Actions(transitions) == {cell \in Cells(transitions) : cell[3] # NoAction}

\* the (state, letter, action) triples of the add_transition calls fit makes for a
\* grammar when none of them fails
Emitted(grammar) ==
    UNION {{<<step.state, step.letter, step.action>> :
               step \in {st \in Range(FitSteps[grammar][i]) : st.op = "add"}} :
              i \in DOMAIN FitSteps[grammar]}

\* ----------------------------------------------------------------- claims

\* C1: for a grammar without empty right-hand sides that Earley fit accepted and
\* a word over its terminals, Earley recognize answers true exactly when the word
\* is in the language of the grammar.
C1_EarleyDecidesLanguage ==
    (/\ kind = "earley" /\ last.op = "predict" /\ ~grammar_is_none(self)
     /\ NoEmptyRhs(self.grammar[1])
     /\ OverTerminals(self.grammar[1], last.word))
    => (last.ret <=> last.word \in Language[self.grammar[1]])

\* C2: on a recognizer fitted with a grammar LR(1) fit accepts (and Earley fit too),
\* LR(1) recognize answers what Earley recognize answers, whatever the word.
C2_LR1AgreesWithEarley ==
    (/\ kind = "lr" /\ last.op = "predict" /\ FittedOnce
     /\ check_grammar(LastGrammar))
    => (last.outcome = "return" /\ last.ret = EarleyAnswer(LastGrammar, last.word))

\* C3: LR(1) fit on a fresh recognizer returns Ok for every grammar without empty
\* right-hand sides whose canonical LR(1) automaton has no conflict.
C3_FitAcceptsConflictFree ==
    (/\ kind = "lr" /\ FreshFit
     /\ WellFormed(LastGrammar) /\ NoEmptyRhs(LastGrammar)
     /\ ConflictFree(LastGrammar))
    => last.outcome = "Ok"

\* C4: LR(1) fit on a fresh recognizer returns the not-LR(1) error exactly when two
\* of the actions it emits for one cell differ (equal ones are accepted); after a
\* fit that returned Ok the table holds exactly the emitted actions; fit fails for
\* S -> Sa | a | empty.
C4_FitReportsConflicts ==
    (kind = "lr" /\ FreshFit)
    => LET emitted == Emitted(LastGrammar)
           clash == \E x, y \in emitted : x[1] = y[1] /\ x[2] = y[2] /\ x[3] # y[3]
       IN  /\ last.outcome = IF clash THEN "NotLR1" ELSE "Ok"
           /\ last.outcome = "Ok" => Cells(self.transitions) = emitted
           /\ LastGrammar = G3 => last.outcome = "NotLR1"

C4_Witness ==
    /\ kind = "lr" /\ FreshFit
    /\ LastGrammar = G3 /\ last.outcome = "NotLR1"

\* C5: on a recognizer fitted with success, recognize answers false for every word
\* with a char that is not a terminal of the grammar.
C5_RejectsForeignChars ==
    (/\ last.op = "predict"
     /\ IF kind = "earley" THEN ~grammar_is_none(self) ELSE FittedOnce
     /\ ~OverTerminals(LastGrammar, last.word)
     /\ log.calls[Len(log.calls)].ret = "Ok")
    => (last.outcome = "return" /\ ~last.ret)

\* C6: fit of either recognizer returns the not-context-free error for a grammar
\* with a production whose left-hand side is not a non-terminal.
C6_FitRejectsNonContextFree ==
    (/\ last.op = "fit"
     /\ \E rule \in rules_iter(LastGrammar) : rule[1] \notin Range(LastGrammar.non_terminals))
    => last.outcome = "NotContextFree"

\* C7: after a fit that returned Ok, two recognize calls with the same word give
\* the same answer, whatever recognize calls were made in between.
C7_RecognizeRepeats ==
    (log.fits >= 1 /\ log.calls[Len(log.calls)].ret = "Ok")
    => \A i, j \in 1..Len(seen) : seen[i].word = seen[j].word => seen[i] = seen[j]

C7_Witness ==
    /\ kind = "lr" /\ log.fits >= 1 /\ log.calls[Len(log.calls)].ret = "Ok"
    /\ Len(seen) = 3
    /\ seen[1].word = seen[3].word /\ seen[2].word # seen[1].word
    /\ seen[1].ret /\ ~seen[2].ret

\* the state fit leaves, as the claim compares it: the stored grammar (Earley), the
\* actions of the table and the start state (LR(1))
FitState(parser) ==
    IF kind = "earley"
    THEN <<parser.grammar>>
    ELSE <<Actions(parser.transitions), parser.start>>

\* C8: a fit call with the grammar of the fit call before it (recognize calls may
\* lie between the two) returns what that call returned and leaves the state that
\* call left.
C8_FitIdempotent ==
    (Len(log.calls) = 2 /\ log.calls[1].grammar = log.calls[2].grammar)
    => /\ log.calls[2].ret = log.calls[1].ret
       /\ FitState(log.calls[2].self) = FitState(log.calls[1].self)

C8_Witness ==
    /\ kind = "lr" /\ Len(log.calls) = 2
    /\ log.calls[1].grammar = log.calls[2].grammar
    /\ log.calls[2].predicts > log.calls[1].predicts
    /\ log.calls[2].ret = "Ok"
    /\ Cells(log.calls[2].self.transitions) # Cells(log.calls[1].self.transitions)

\* C9: an Earley recognizer on which no fit call returned Ok answers false to every
\* recognize call and its chart stays as constructed.
C9_EarleyUnfitted ==
    (kind = "earley" /\ log.oks = 0)
    => /\ self.situations = EarleyParser_new.situations
       /\ last.op = "predict" => (last.outcome = "return" /\ ~last.ret)

C9_Witness ==
    /\ kind = "earley" /\ log.oks = 0
    /\ log.fits >= 1 /\ last.op = "predict"

\* C10: recognize returns a boolean in every state that fit and recognize calls
\* lead to: the LR(1) driver never makes a Reduce of more states than its stack
\* holds, and the loop ends.
C10_RecognizeNeverRaises ==
    last.op = "predict" => last.outcome = "return"

\* C11: on a recognizer fitted with success, recognize of the empty word answers
\* false, also for a grammar with a production whose right-hand side is empty.
C11_EmptyWordRejected ==
    (/\ last.op = "predict" /\ last.word = <<>>
     /\ IF kind = "earley" THEN ~grammar_is_none(self) ELSE FittedOnce)
    => (last.outcome = "return" /\ ~last.ret)

\* ------------------------------------------------------- the grammar loader
\* A text is the sequence of the chars of a &str.  The texts handed to the loader
\* hold no carriage return, so str::lines ends a line at each line feed only.
ch_lf == 10

ch_space == 32

ch_minus == 45

ch_gt == 62

\* str::lines: the pieces between line feeds; an empty piece after the last line
\* feed (or an empty text) is no line
RECURSIVE lines_from(_, _)
lines_from(s, line) ==
    IF s = <<>>
    THEN IF line = <<>> THEN <<>> ELSE <<line>>
    ELSE IF Head(s) = ch_lf
         THEN <<line>> \o lines_from(Tail(s), <<>>)
         ELSE lines_from(Tail(s), Append(line, Head(s)))

lines(s) == lines_from(s, <<>>)

\* str::split("->"): the pieces between the matches of the delimiter, found from the
\* left without overlap
RECURSIVE split_from(_, _)
split_from(s, part) ==
    IF s = <<>>
    THEN <<part>>
    ELSE IF Len(s) >= 2 /\ s[1] = ch_minus /\ s[2] = ch_gt
         THEN <<part>> \o split_from(SubSeq(s, 3, Len(s)), <<>>)
         ELSE split_from(Tail(s), Append(part, Head(s)))

split(s) == split_from(s, <<>>)

\* char::is_whitespace, for the chars below U+0100
is_whitespace(c) == c \in {9, 10, 11, 12, 13, 32, 133, 160}

\* str::trim
RECURSIVE trim_start(_)
trim_start(s) ==
    IF s # <<>> /\ is_whitespace(Head(s)) THEN trim_start(Tail(s)) ELSE s

RECURSIVE trim_end(_)
trim_end(s) ==
    IF s # <<>> /\ is_whitespace(s[Len(s)]) THEN trim_end(SubSeq(s, 1, Len(s) - 1)) ELSE s

trim(s) == trim_end(trim_start(s))

\* the results of the loader's checks: ok is FALSE for Err, value is the Ok value
check_lines(text_lines) == [ok |-> ~(Len(text_lines) < 4), value |-> NUL]

check_parts(parts) == [ok |-> ~(Len(parts) # 2), value |-> NUL]

\* a check_key that takes the first char of any key that has one
check_key_first_char(key) ==
    IF key = <<>> THEN [ok |-> FALSE, value |-> NUL] ELSE [ok |-> TRUE, value |-> key[1]]

\* check_key and check_start compare the length in bytes with 1
check_key(key) ==
    IF str_len(key) # 1 THEN [ok |-> FALSE, value |-> NUL] ELSE [ok |-> TRUE, value |-> key[1]]

check_start(start) ==
    IF str_len(start) # 1 THEN [ok |-> FALSE, value |-> NUL] ELSE [ok |-> TRUE, value |-> start[1]]

\* lines[i].chars().collect::<HashSet<_>>()
RECURSIVE HashSet_from(_)
HashSet_from(s) ==
    IF s = <<>> THEN <<>>
    ELSE HashSet_insert(HashSet_from(SubSeq(s, 1, Len(s) - 1)), s[Len(s)])

\* the for loop of from_str over the production lines i..(lines.len() - 1): the rules
\* read, or the first failure
RECURSIVE from_str_rules(_, _, _, _)
from_str_rules(text_lines, non_terminals, i, rules) ==
    IF i >= Len(text_lines)
    THEN [ok |-> TRUE, rules |-> rules]
    ELSE LET parts == [k \in DOMAIN split(text_lines[i]) |-> trim(split(text_lines[i])[k])]
             key == check_key(parts[1])
         IN  IF ~check_parts(parts).ok \/ ~key.ok \/ key.value \notin Range(non_terminals)
             THEN [ok |-> FALSE, rules |-> rules]
             ELSE from_str_rules(text_lines, non_terminals, i + 1,
                                 MultiMap_insert(rules, key.value, parts[2]))

\* <CFGrammar as FromStr>::from_str: ret is "Ok" with the grammar, or "Err" with none
from_str(s) ==
    LET text_lines == lines(s)
        failed == [ret |-> "Err", grammar |-> <<>>]
    IN  IF ~check_lines(text_lines).ok
        THEN failed
        ELSE LET non_terminals == HashSet_from(text_lines[1])
                 terminals == Range(text_lines[2])
                 read == from_str_rules(text_lines, non_terminals, 3, <<>>)
                 start == check_start(text_lines[Len(text_lines)])
             IN  IF ~read.ok \/ ~start.ok
                 THEN failed
                 ELSE [ret     |-> "Ok",
                       grammar |-> <<CFGrammar_new(terminals, non_terminals, read.rules,
                                                   start.value)>>]

\* ------------------------------------------ the functions without a recognizer
\* The inputs of CFGrammar::new: sets and rules over S, C, a, c, d and a two-byte
\* char, without the sentinels.
NewTerminals == {{ch_a}, {ch_c, ch_d}, {ch_a, ch_e_acute}, {}}

NewNonTerminals == {<<ch_S>>, <<ch_S, ch_C>>, <<ch_C, ch_S>>, <<>>}

NewRule == {<<ch_S, <<ch_a>>>>, <<ch_S, <<ch_C, ch_C>>>>, <<ch_C, <<ch_c, ch_C>>>>,
            <<ch_C, <<>>>>, <<ch_d, <<ch_a>>>>}

MaxNewRules == 2

RECURSIVE SeqsUpTo(_, _)
SeqsUpTo(S, n) ==
    IF n = 0 THEN {<<>>}
    ELSE SeqsUpTo(S, n - 1) \cup {Append(q, x) : q \in {p \in SeqsUpTo(S, n - 1) : Len(p) = n - 1}, x \in S}

NewStart == {ch_S, ch_C}

\* The texts handed to from_str are written from their parts: the line of the
\* non-terminals, the line of the terminals, the production lines (each a left-hand
\* side, what stands between the sides, a right-hand side), the start line, and
\* whether a line feed ends the text.
GrammarText(non_terminals, terminals, productions, start, newline) ==
    [non_terminals |-> non_terminals, terminals |-> terminals,
     productions |-> productions, start |-> start, newline |-> newline]

Production(lhs, sep, rhs) == [lhs |-> lhs, sep |-> sep, rhs |-> rhs]

Arrow == <<ch_minus, ch_gt>>

RECURSIVE JoinLines(_)
JoinLines(text_lines) ==
    IF Len(text_lines) = 0 THEN <<>>
    ELSE IF Len(text_lines) = 1 THEN text_lines[1]
    ELSE text_lines[1] \o <<ch_lf>> \o JoinLines(Tail(text_lines))

TextOf(parts) ==
    JoinLines(<<parts.non_terminals, parts.terminals>>
              \o [i \in DOMAIN parts.productions |->
                    parts.productions[i].lhs \o parts.productions[i].sep
                    \o parts.productions[i].rhs]
              \o <<parts.start>>)
    \o (IF parts.newline THEN <<ch_lf>> ELSE <<>>)

\* the text of grammar_unit_test_1, the texts of grammar_should_fail_1 .. 5 and a
\* text whose one non-terminal takes two bytes
SeedTexts ==
    { GrammarText(<<ch_S, ch_T, ch_F, ch_N>>, <<ch_a, ch_plus, ch_star, ch_lpar, ch_rpar>>,
                  << Production(<<ch_S>>, Arrow, <<ch_N>>),
                     Production(<<ch_N>>, Arrow, <<ch_T, ch_plus, ch_N>>),
                     Production(<<ch_N>>, Arrow, <<ch_T>>),
                     Production(<<ch_T>>, Arrow, <<ch_F, ch_star, ch_T>>),
                     Production(<<ch_T>>, Arrow, <<ch_F>>),
                     Production(<<ch_F>>, Arrow, <<ch_lpar, ch_N, ch_rpar>>),
                     Production(<<ch_F>>, Arrow, <<ch_a>>) >>,
                  <<ch_S>>, FALSE),
      GrammarText(<<ch_S>>, <<ch_a, ch_d>>,
                  << Production(<<ch_S>>, Arrow, <<ch_a>>),
                     Production(<<ch_d>>, Arrow, <<ch_a>>) >>, <<ch_S>>, FALSE),
      GrammarText(<<ch_S>>, <<ch_a, ch_d>>,
                  << Production(<<ch_S, ch_S>>, Arrow, <<ch_a>>),
                     Production(<<ch_d>>, Arrow, <<ch_a>>) >>, <<ch_S>>, FALSE),
      GrammarText(<<ch_S>>, <<ch_a, ch_d>>, <<>>, <<ch_S>>, FALSE),
      GrammarText(<<ch_S>>, <<ch_a, ch_d>>,
                  << Production(<<ch_S>>, Arrow, <<ch_a>>),
                     Production(<<ch_S>>, Arrow, <<ch_d>>) >>, <<ch_S, ch_S>>, FALSE),
      GrammarText(<<ch_S, ch_T>>, <<ch_a, ch_d>>,
                  << Production(<<ch_S>>, Arrow, <<ch_T>> \o Arrow \o <<ch_a>>) >>,
                  <<ch_S>>, FALSE),
      GrammarText(<<ch_e_acute>>, <<ch_a>>,
                  << Production(<<ch_e_acute>>, Arrow, <<ch_a>>) >>, <<ch_e_acute>>, FALSE) }

TextLhs == {<<ch_S>>, <<ch_C>>, <<ch_S, ch_S>>, <<>>, <<ch_e_acute>>}

TextSep == {Arrow, <<ch_space>> \o Arrow \o <<ch_space>>, <<ch_space>>}

TextRhs == {<<ch_a>>, <<>>, <<ch_C>> \o Arrow \o <<ch_a>>}

\* a line without the delimiter between its sides has none in its right-hand side
\* either, so that each line reads in one way only
TextProduction ==
    {Production(lhs, sep, rhs) : lhs \in TextLhs, sep \in TextSep, rhs \in TextRhs}
    \ {Production(lhs, <<ch_space>>, rhs) : lhs \in TextLhs, rhs \in TextRhs \ {<<ch_a>>, <<>>}}

MaxTextProductions == 2

TextStart == {<<ch_S>>, <<ch_S, ch_S>>, <<>>, <<ch_e_acute>>}

TextNonTerminals == {<<ch_S>>, <<ch_S, ch_C>>}

TextTerminals == <<ch_a, ch_d>>

\* the strings handed to get_first: up to MaxLookup symbols of the grammar (what
\* stands after the dot of a situation) and a terminal (its lookahead)
MaxLookup == 2

\* a call that is still to be made, and the call made
Pending(op, input) ==
    [op |-> op, input |-> input, done |-> FALSE, ret |-> "none", grammar |-> <<>>, found |-> {}]

Returned(call, ret, grammar, found) ==
    [call EXCEPT !.done = TRUE, !.ret = ret, !.grammar = grammar, !.found = found]

\* the call to make is drawn first, and one action makes it
FnInit ==
    /\ kind = "fn"
    /\ self = <<>>
    /\ log = [fits |-> 0, oks |-> 0, predicts |-> 0, calls |-> <<>>]
    /\ seen = <<>>
    /\ \/ \E terminals \in NewTerminals, non_terminals \in NewNonTerminals,
            pairs \in SeqsUpTo(NewRule, MaxNewRules), start \in NewStart :
              last = Pending("new", [terminals |-> terminals, non_terminals |-> non_terminals,
                                     rules |-> MultiMap_from(pairs), start |-> start])
       \/ \E grammar \in Grammars :
            \E body \in SeqsUpTo(Range(grammar.non_terminals) \cup grammar.terminals, MaxLookup),
               lookahead \in grammar.terminals :
                 last = Pending("get_first", [grammar |-> grammar,
                                              lookup |-> Append(body, lookahead)])
       \/ \E parts \in SeedTexts : last = Pending("from_str", parts)
       \/ \E non_terminals \in TextNonTerminals,
             productions \in SeqsUpTo(TextProduction, MaxTextProductions),
             start \in TextStart, newline \in BOOLEAN :
               \* an empty start line is a line of the text only when a line feed ends it
               /\ start = <<>> => newline
               /\ last = Pending("from_str", GrammarText(non_terminals, TextTerminals,
                                                         productions, start, newline))

\* a call of CFGrammar::new
GrammarNew ==
    /\ last.op = "new" /\ ~last.done
    /\ last' = Returned(last, "Ok",
                        <<CFGrammar_new(last.input.terminals, last.input.non_terminals,
                                        last.input.rules, last.input.start)>>, {})
    /\ UNCHANGED <<kind, self, log, seen>>

\* a call of CFGrammar::from_str
GrammarFromStr ==
    /\ last.op = "from_str" /\ ~last.done
    /\ LET r == from_str(TextOf(last.input))
       IN  last' = Returned(last, r.ret, r.grammar, {})
    /\ UNCHANGED <<kind, self, log, seen>>

\* a call of LR1Parser::get_first
GetFirst ==
    /\ last.op = "get_first" /\ ~last.done
    /\ last' = Returned(last, "Ok", <<>>, get_first(last.input.grammar, last.input.lookup))
    /\ UNCHANGED <<kind, self, log, seen>>

FnNext ==
    \/ GrammarNew
    \/ GrammarFromStr
    \/ GetFirst

FnSpec == FnInit /\ [][FnNext]_vars

\* ------------------------------------------------------ claims C12 and C13
\* assert_eq! on the four fields, as grammar_unit_test_1 compares two grammars
grammar_eq(a, b) ==
    /\ Range(a.non_terminals) = Range(b.non_terminals)
    /\ a.terminals = b.terminals
    /\ a.rules = b.rules
    /\ a.start = b.start

\* the matches of the delimiter in a string, counted from the left without overlap
RECURSIVE Arrows(_)
Arrows(s) ==
    IF Len(s) < 2 THEN 0
    ELSE IF s[1] = ch_minus /\ s[2] = ch_gt
         THEN 1 + Arrows(SubSeq(s, 3, Len(s)))
         ELSE Arrows(Tail(s))

\* what the parts of a text declare: the production lines as (key, value) pairs
DeclaredRules(parts) ==
    MultiMap_from([i \in DOMAIN parts.productions |->
                     <<parts.productions[i].lhs[1], parts.productions[i].rhs>>])

\* the ways in which C13 says a text is malformed, read off the parts of the text
MalformedText(parts) ==
    \/ 3 + Len(parts.productions) < 4
    \/ \E i \in DOMAIN parts.productions :
         LET p == parts.productions[i]
         IN  \/ Arrows(p.sep) + Arrows(p.rhs) # 1
             \/ Len(p.lhs) # 1
             \/ p.lhs[1] \notin Range(parts.non_terminals)
    \/ Len(parts.start) # 1

\* C12: CFGrammar::new returns terminals = T + {END, EPS}, non_terminals =
\* N + {START}, rules = R and the one production START -> u, and get_start_rule
\* returns (START, u); a grammar from_str builds from a text equals the grammar
\* new builds from the sets, the rules and the start symbol the text declares.
C12_NewAugmentsGrammar ==
    /\ (last.op = "new" /\ last.done)
       => LET grammar == last.grammar[1]
              input == last.input
          IN  /\ grammar.terminals = input.terminals \cup {END_TERMINAL, EPS_TERMINAL}
              /\ Range(grammar.non_terminals) = Range(input.non_terminals) \cup {START_RULE}
              /\ DOMAIN grammar.rules = DOMAIN input.rules \cup {START_RULE}
              /\ \A key \in DOMAIN input.rules : grammar.rules[key] = input.rules[key]
              /\ grammar.rules[START_RULE] = << <<input.start>> >>
              /\ Len(grammar.rules[START_RULE]) = 1
              /\ get_start_rule(grammar) = <<START_RULE, <<input.start>>>>
    /\ (last.op = "from_str" /\ last.done /\ last.ret = "Ok")
       => /\ ~MalformedText(last.input)
          /\ grammar_eq(last.grammar[1],
                        CFGrammar_new(Range(last.input.terminals),
                                      HashSet_from(last.input.non_terminals),
                                      DeclaredRules(last.input), last.input.start[1]))

C12_Witness ==
    /\ last.op = "from_str" /\ last.done /\ last.ret = "Ok"
    /\ Len(last.input.productions) = 7
    /\ grammar_eq(last.grammar[1], G1)

\* C13: from_str returns an error and no grammar for a text with fewer than four
\* lines, with a production line that has not exactly one delimiter, whose left-hand
\* side is not exactly one char or is no declared non-terminal, or with a start
\* line that is not exactly one char.
C13_LoaderRejectsMalformed ==
    (last.op = "from_str" /\ last.done /\ MalformedText(last.input))
    => (last.ret = "Err" /\ last.grammar = <<>>)

C13_Witness ==
    /\ last.op = "from_str" /\ last.done /\ last.ret = "Err"
    /\ Len(last.input.productions) = 2 /\ Len(last.input.start) = 1
    /\ \A i \in DOMAIN last.input.productions :
         LET p == last.input.productions[i]
         IN  Arrows(p.sep) + Arrows(p.rhs) = 1 /\ Len(p.lhs) = 1
    /\ \E i \in DOMAIN last.input.productions :
         last.input.productions[i].lhs[1] \notin Range(last.input.non_terminals)

\* ---------------------------------------------------------------- claim C14
\* C14: for a grammar without empty right-hand sides and a string of symbols that
\* ends in a terminal, get_first returns exactly the terminals that begin a string
\* derivable from it.
C14_GetFirstIsFirst ==
    (last.op = "get_first" /\ last.done /\ NoEmptyRhs(last.input.grammar))
    => last.found = First(last.input.grammar, last.input.lookup)

\* ---------------------------------------------------------------- claim C15
\* C15: when LR(1) recognize returns true, the symbols left in `stack` at the Accept
\* are the END_TERMINAL the driver put under the word and nothing else: no char of
\* the word is left unread.
C15_AcceptReadsWholeWord ==
    [][(kind = "lr" /\ FittedOnce /\ last'.op = "predict" /\ last'.ret)
       => LR1Parser_predict(self, last'.word).stack = <<END_TERMINAL>>]_vars

\* ---------------------------------------------------------------- claim C16
\* the id fit gives to the initial state CLOSURE({(START -> .u, END)}) of a grammar
InitialStateId ==
    [grammar \in Grammars |->
        mapping(get_states(grammar),
                closure(grammar, {LR1Situation_new(get_start_rule(grammar), 0, END_TERMINAL)}))]

\* C16: once the last fit call on an LR(1) recognizer returned Ok, self.start is the
\* id of the initial state of its grammar, and a predict call begins with that one
\* id as its state stack.
C16_StartIsInitialState ==
    (kind = "lr" /\ log.fits >= 1 /\ log.calls[Len(log.calls)].ret = "Ok")
    => /\ self.start = InitialStateId[LastGrammar]
       /\ initial_queue(self) = <<InitialStateId[LastGrammar]>>

\* ---------------------------------------------------------------- claim C17
\* fit of each grammar on a recognizer as LR1Parser::new returns it
OnFresh == [grammar \in Grammars |-> LR1Parser_fit(LR1Parser_new, grammar)]

\* C17: a fit call on an LR(1) recognizer fitted before with another grammar returns
\* what it returns on a fresh recognizer, and predict then answers as on that fresh
\* recognizer.
C17_FitReplacesGrammar ==
    (/\ kind = "lr" /\ Len(log.calls) = 2
     /\ log.calls[1].ret = "Ok"
     /\ log.calls[1].grammar # log.calls[2].grammar)
    => /\ log.calls[2].ret = OnFresh[LastGrammar].ret
       /\ last.op = "predict"
          => LET fresh == LR1Parser_predict(OnFresh[LastGrammar].self, last.word)
             IN  last.outcome = fresh.outcome /\ last.ret = fresh.ret


\* ---------------------------------------------------------------------------
\* C18: a fit call that returns an error leaves the recognizer as it was
\* before the call: the Earley recognizer keeps its stored grammar (or none),
\* the LR(1) recognizer keeps its action table and its start state, and
\* recognize answers every word after the failed fit as it did before it.
\* ---------------------------------------------------------------------------
Recognize(parser, word) ==
    IF kind = "earley"
    THEN [outcome |-> "return", ret |-> EarleyParser_predict(parser, word).ret]
    ELSE LET r == LR1Parser_predict(parser, word)
         IN  [outcome |-> r.outcome, ret |-> r.ret]

FailedFit == log'.fits = log.fits + 1 /\ last'.op = "fit" /\ ~last'.ret

C18_FailedFitKeepsState ==
    [][FailedFit => /\ self' = self
                    /\ \A word \in Words : Recognize(self', word) = Recognize(self, word)]_vars


\* ---------------------------------------------------------------------------
\* C19: LR(1) recognize leaves the automaton as it was: the start state keeps
\* its value, every cell of the action table keeps its action, and a cell the
\* call adds holds NoAction.
\* ---------------------------------------------------------------------------
LRRecognizeStep == kind = "lr" /\ log'.predicts = log.predicts + 1 /\ last'.op = "predict"

C19_RecognizeKeepsAutomaton ==
    [][LRRecognizeStep =>
          /\ self'.start = self.start
          /\ Cells(self.transitions) \subseteq Cells(self'.transitions)
          /\ \A cell \in Cells(self'.transitions) \ Cells(self.transitions) :
                cell[3] = NoAction]_vars

\* a recognize call on a fitted recognizer has followed Shift and Reduce actions up to
\* Accept, and the table holds a cell that the fit did not leave in it
C19_Witness ==
    /\ kind = "lr" /\ FittedOnce /\ last.op = "predict"
    /\ \E call \in Range(seen) : call.ret
    /\ Actions(self.transitions) # {}
    /\ Cells(self.transitions) # Cells(log.calls[1].self.transitions)


\* ---------------------------------------------------------------------------
\* C20: after a fit of the LR(1) recognizer that returned Ok, the driver loop
\* of recognize ends for every word: no call is left repeating Reduce and
\* non-terminal Shift steps without reading input.
\* ---------------------------------------------------------------------------
C20_DriverTerminates ==
    (/\ kind = "lr" /\ last.op = "predict"
     /\ log.fits >= 1 /\ log.calls[Len(log.calls)].ret = "Ok")
    => last.outcome \notin {"diverge", "unfinished"}


\* ---------------------------------------------------------------------------
\* C21: at every position k of the chart the predict/complete fixpoint ends
\* within the bound: the set situations[k] that do_layer leaves is one that a
\* further predict+complete pass does not change (passes only add, and the loop
\* stops at the first pass that adds nothing), and it holds at most
\* |productions| * max_RHS * (k + 1) situations.
\* ---------------------------------------------------------------------------
\* the number of productions of a grammar, the one of START among them
ProductionCount(grammar) ==
    Cardinality(UNION {{<<rule_left, i>> : i \in 1..Len(grammar.rules[rule_left])} :
                          rule_left \in DOMAIN grammar.rules})

\* the number of symbols of the longest right-hand side
MaxRhs(grammar) ==
    LET lengths == UNION {{Len(grammar.rules[rule_left][i]) :
                             i \in 1..Len(grammar.rules[rule_left])} :
                            rule_left \in DOMAIN grammar.rules}
    IN  CHOOSE n \in lengths : \A m \in lengths : m <= n

\* one pass of the loop of do_layer
LayerPass(grammar, situations, layer) ==
    Earley_complete(Earley_predict_step(grammar, situations, layer), layer)

C21_LayerFixpointBounded ==
    (kind = "earley" /\ last.op = "predict" /\ ~grammar_is_none(self))
    => \A k \in 0..(Len(self.situations) - 1) :
          /\ LayerPass(self.grammar[1], self.situations, k)[k + 1] = self.situations[k + 1]
          /\ Cardinality(self.situations[k + 1])
                <= ProductionCount(self.grammar[1]) * MaxRhs(self.grammar[1]) * (k + 1)


\* ---------------------------------------------------------------------------
\* C22: for a word of n chars the chart of the Earley recognizer has the
\* positions 0..n, counted in chars: the k-th char is scanned from
\* situations[k - 1] into situations[k], and the answer is read from
\* situations[n]; for words with chars of more than one byte as well.
\* ---------------------------------------------------------------------------
\* the situations that scanning `letter` makes of those of a set, dots counted in chars
Scanned(set, letter) ==
    {EarleySituation_new(situation.rule, situation.pos + 1, situation.prev_cnt) :
        situation \in {s \in set : /\ s.pos < Len(s.rule[2])
                                   /\ s.rule[2][s.pos + 1] = letter}}

C22_ChartIndexedByChars ==
    (kind = "earley" /\ last.op = "predict" /\ ~grammar_is_none(self))
    => LET n == Len(last.word)
           start_rule == get_start_rule(self.grammar[1])
       IN  /\ Len(self.situations) = n + 1
           /\ \A k \in 1..n :
                 Scanned(self.situations[k], last.word[k]) \subseteq self.situations[k + 1]
           /\ last.ret <=> EarleySituation_new(start_rule, Len(start_rule[2]), 0)
                              \in self.situations[n + 1]

====
